---- MODULE Spec2Model ----
(***************************************************************************)
(* Winery Board auth-service (index.js): two JSON partitions on disk       *)
(* (users.json, admins.json), an in-memory session map, and the Express    *)
(* handlers that read-modify-write the partitions.  Every handler is an    *)
(* async function; the model splits it at the awaits that touch a          *)
(* partition file (fsp.readFile / fsp.writeFile), so that the steps of     *)
(* different requests interleave exactly where the event loop lets them.   *)
(* bcrypt is the opaque derive/verify primitive; randomUUID is a fresh     *)
(* value drawn from a counter; Date.now() stamps are not modelled.         *)
(***************************************************************************)
EXTENDS Integers, Sequences, FiniteSets, TLC

\* ------------------------------------------------------------------ bounds
\* requests the clients send in one behaviour
MaxReq == 3
\* requests whose executions may overlap (pending handlers on the event loop)
MaxInflight == 2
\* requests of a behaviour whose clients use only a few of the endpoints
\* (SpecAdmin, SpecUsers)
MaxReqFew == 4

\* ------------------------------------------------------- program constants
NameMin == 2
NameMax == 40
PasswordMin == 6
PasswordMax == 64
LabelMin == 1
LabelMax == 140

\* ------------------------------------------------------------ input values
\* Strings are sequences of characters so that toLowerCase, trim and length
\* are computed, not assumed.
LowerChar(c) == IF c = "A" THEN "a" ELSE IF c = "B" THEN "b" ELSE c
\* String.prototype.toLowerCase
ToLowerCase(s) == [i \in DOMAIN s |-> LowerChar(s[i])]

\* z.string().email(): the model's addresses are local@domain triples; a
\* string without "@" is rejected
IsEmail(s) == Len(s) = 3 /\ s[2] = "@" /\ s[1] # "@" /\ s[3] # "@"

\* process.env defaults of ensureSeedAdmin
AdminEmailEnv == <<"o", "@", "w">>
AdminPasswordEnv == <<"w", "i", "n", "e", "r", "y", "a", "d", "m", "i", "n">>
AdminNameEnv == <<"B", "u", "i", "l", "d", "e", "r">>

EmailA == <<"a", "@", "x">>
EmailAUpper == <<"A", "@", "x">>
EmailB == <<"b", "@", "x">>
EmailSeed == AdminEmailEnv
Secret1 == <<"s", "e", "c", "r", "e", "t", "1">>
InputEmails == {EmailA, EmailAUpper, EmailB, EmailSeed}
NameAl == <<"A", "l">>
\* payloads a schema rejects: one per field
BadName == <<"A">>
BadEmail == <<"a", "x">>
BadPassword == <<"s", "h", "o", "r", "t">>
\* bodies of register: {name, email, password}, and one with a role key, which
\* registerSchema does not declare
RegisterInputs ==
  {[name |-> NameAl, email |-> e, password |-> Secret1] : e \in InputEmails}
  \cup {[name |-> BadName, email |-> EmailA, password |-> Secret1],
        [name |-> NameAl, email |-> BadEmail, password |-> Secret1],
        [name |-> NameAl, email |-> EmailA, password |-> BadPassword]}
  \cup {[name |-> NameAl, email |-> EmailB, password |-> Secret1, role |-> "admin"]}
\* {email, password} bodies of login
LoginInputs ==
  {[email |-> e, password |-> Secret1] : e \in InputEmails}
  \cup {[email |-> EmailSeed, password |-> AdminPasswordEnv],
        [email |-> EmailA, password |-> AdminPasswordEnv],
        [email |-> BadEmail, password |-> Secret1],
        [email |-> EmailA, password |-> BadPassword]}
InputLabels == {<<"m">>, <<" ", "m", " ">>, <<" ">>, <<>>}
\* {name, email, password, role?} bodies of POST /api/admin/users
AdminInputs ==
  {[name |-> NameAl, email |-> e, password |-> Secret1, role |-> ro] :
     e \in InputEmails, ro \in {"absent", "admin"}}
  \cup {[name |-> NameAl, email |-> EmailB, password |-> Secret1, role |-> "user"],
        [name |-> NameAl, email |-> EmailB, password |-> Secret1, role |-> "root"],
        [name |-> NameAl, email |-> EmailB, password |-> BadPassword, role |-> "admin"]}
\* req.body.done of PATCH: absent (or not a boolean), or a boolean
InputDone == {"absent", "true", "false"}

WhiteSpace == {" "}
RECURSIVE TrimStart(_)
TrimStart(s) == IF s # <<>> /\ Head(s) \in WhiteSpace THEN TrimStart(Tail(s)) ELSE s
RECURSIVE TrimEnd(_)
TrimEnd(s) ==
  IF s # <<>> /\ s[Len(s)] \in WhiteSpace THEN TrimEnd(SubSeq(s, 1, Len(s) - 1)) ELSE s
\* String.prototype.trim
Trim(s) == TrimEnd(TrimStart(s))

\* bcrypt.hash / bcrypt.compare: an opaque one-way pair (the salt is not
\* modelled: verify succeeds exactly on the plaintext the hash was derived from)
BcryptHash(p) == <<"bcrypt", p>>
BcryptCompare(p, h) == h = BcryptHash(p)

\* ------------------------------------------------------------- zod schemas
ValidName(n) == Len(n) >= NameMin /\ Len(n) <= NameMax
ValidPassword(p) == Len(p) >= PasswordMin /\ Len(p) <= PasswordMax
registerSchema(name, email, password) ==
  ValidName(name) /\ IsEmail(email) /\ ValidPassword(password)
loginSchema(email, password) == IsEmail(email) /\ ValidPassword(password)
todoCreateSchema(label) == Len(label) >= LabelMin /\ Len(label) <= LabelMax
adminCreateUserSchema(name, email, password, role) ==
  registerSchema(name, email, password) /\ role \in {"absent", "user", "admin"}

\* ---------------------------------------------------------------- records
\* an account as stored in a partition file (createdAt omitted)
Account(id, name, email, hash, role) ==
  [id |-> id, name |-> name, email |-> email, passwordHash |-> hash,
   role |-> role, todos |-> <<>>]
\* mutant: the profile is the stored record
scrubMemberWhole(user) == user
\* scrubMember: the record without passwordHash
scrubMember(user) ==
  [f \in (DOMAIN user) \ {"passwordHash"} |-> user[f]]
Todo(id, label) == [id |-> id, label |-> label, done |-> FALSE]

\* Array.prototype.find over a list: index of the first match, 0 if none
FindIndex(list, P(_)) ==
  IF \E i \in DOMAIN list : P(list[i])
  THEN CHOOSE i \in DOMAIN list : P(list[i]) /\ \A j \in 1..(i - 1) : ~P(list[j])
  ELSE 0

\* ------------------------------------------------------------------ state
VARIABLES
  usersFile,   \* parsed content of data/users.json
  adminsFile,  \* parsed content of data/admins.json
  sessions,    \* the sessions Map: token -> [userId, role]
  listening,   \* app.listen has been called
  reqs,        \* the handlers suspended at an await, one record each
  uuids,       \* number of values randomUUID has returned
  started,     \* requests received so far
  quota,       \* requests the clients send in this behaviour
  lastResp,    \* the response sent last, with the request it answers
  registered,  \* history: the registrations answered 201
  created,     \* history: the task creations answered 201
  deleted,     \* history: the task deletions answered 204
  corrupt,     \* the partition files whose content JSON.parse rejects (usersFile /
               \* adminsFile keep the last content that was readable)
  exited,      \* the process has ended (process.exit or an uncaught rejection)
  faults       \* I/O failures and process restarts still to come

vars == <<usersFile, adminsFile, sessions, listening, reqs, uuids, started,
          quota, lastResp, registered, created, deleted, corrupt, exited, faults>>

Parts == {"users", "admins"}
NoHeader == 0
UnknownToken == -1
NoBody == [none |-> TRUE]

\* fsp.readFile + JSON.parse of a partition
ReadFile(p) == IF p = "users" THEN usersFile ELSE adminsFile
\* fsp.writeFile of a partition: the whole collection is replaced
WriteFile(p, list) ==
  /\ usersFile' = IF p = "users" THEN list ELSE usersFile
  /\ adminsFile' = IF p = "admins" THEN list ELSE adminsFile
  /\ corrupt' = corrupt \ {p}

\* a request record; fields a handler does not use keep their defaults
Request(kind, hdr) ==
  [kind |-> kind, pc |-> "start", seq |-> started + 1, hdr |-> hdr,
   userId |-> IF hdr \in DOMAIN sessions THEN sessions[hdr].userId ELSE 0,
   role |-> IF hdr \in DOMAIN sessions THEN sessions[hdr].role ELSE "none",
   name |-> <<>>, email |-> <<>>, password |-> <<>>, prole |-> "absent",
   label |-> <<>>, tid |-> 0, done |-> "absent",
   list |-> <<>>, users |-> <<>>, admins |-> <<>>, pending |-> {},
   out |-> NoBody]

\* res.status(..).json(..): the handler ends
Reply(r, status, message, body) ==
  lastResp' = [req |-> r, status |-> status, message |-> message, body |-> body]

\* the handler reaches an await and yields to the event loop
Suspend(r) ==
  /\ Cardinality(reqs) < MaxInflight
  /\ reqs' = reqs \cup {r}
  /\ UNCHANGED lastResp

\* a suspended handler r resumes and either suspends again as r2 or ends
Resume(r, r2) == reqs' = (reqs \ {r}) \cup {r2} /\ UNCHANGED lastResp
Finish(r) == reqs' = reqs \ {r}

\* mutant: issuing a session forgets the sessions issued before
createSessionAlone(token, userId, role) ==
  sessions' = [t \in {token} |-> [userId |-> userId, role |-> role]]
\* createSession(userId, role): the token is the fresh uuid `token`
createSession(token, userId, role) ==
  sessions' = [t \in DOMAIN sessions \cup {token} |->
                 IF t = token THEN [userId |-> userId, role |-> role]
                 ELSE sessions[t]]

InitFiles ==
  /\ usersFile = <<>>
  /\ adminsFile = <<>>
  /\ sessions = <<>>
  /\ listening = FALSE
  /\ reqs = {}
  /\ uuids = 0
  /\ started = 0
  /\ lastResp = [req |-> [kind |-> "none", seq |-> 0], status |-> 0, message |-> "",
                 body |-> NoBody]
  /\ registered = {}
  /\ created = {}
  /\ deleted = {}
  /\ corrupt = {}
  /\ exited = FALSE

Init == InitFiles /\ quota = MaxReq /\ faults = 0

\* mutant: the seeder does not look for the seed email before it appends
ensureSeedAdminAgain ==
  LET adminUser == Account(uuids + 1, AdminNameEnv, ToLowerCase(AdminEmailEnv),
                           BcryptHash(AdminPasswordEnv), "admin")
  IN WriteFile("admins", Append(ReadFile("admins"), adminUser)) /\ uuids' = uuids + 1

\* ensureSeedAdmin, then app.listen.  No handler runs before listen, so the
\* read-check-write of the seeder is not interleaved with any request.
ensureSeedAdmin ==
  LET adminEmail == ToLowerCase(AdminEmailEnv)
      admins == ReadFile("admins")
      exists == \E i \in DOMAIN admins : admins[i].email = adminEmail
      adminUser == Account(uuids + 1, AdminNameEnv, adminEmail,
                           BcryptHash(AdminPasswordEnv), "admin")
  IN IF exists
     THEN UNCHANGED <<usersFile, adminsFile, uuids, corrupt>>
     ELSE WriteFile("admins", Append(admins, adminUser)) /\ uuids' = uuids + 1

\* mutant: app.listen is not preceded by the seeder
bootstrapUnseeded ==
  /\ ~listening /\ ~exited
  /\ listening' = TRUE
  /\ UNCHANGED <<usersFile, adminsFile, uuids, corrupt, sessions, reqs, started,
                 quota, lastResp, registered, created, deleted, exited, faults>>

bootstrap ==
  /\ ~listening /\ ~exited
  /\ "admins" \notin corrupt
  /\ ensureSeedAdmin
  /\ listening' = TRUE
  /\ UNCHANGED <<sessions, reqs, started, quota, lastResp, registered, created,
                 deleted, exited, faults>>

\* ------------------------------------------------------- requireAuth
AdminOnly == {"adminOverview", "adminUsers"}
Gated == {"session", "todos", "postTodo", "patchTodo", "deleteTodo"} \cup AdminOnly

\* requireAuth up to its await: header and session registry
AuthBegin(r) ==
  IF r.hdr = NoHeader THEN Reply(r, 401, "missing-token", NoBody) /\ UNCHANGED reqs
  ELSE IF r.hdr \notin DOMAIN sessions
       THEN Reply(r, 401, "invalid-token", NoBody) /\ UNCHANGED reqs
  ELSE Suspend([r EXCEPT !.pc = "gate"])

\* index of the session's account in the list the gate has read
GateIndex(list, userId) == FindIndex(list, LAMBDA entry : entry.id = userId)

\* mutant: the gate never looks at the role
GateCheckAnyRole(list, userId, role, requireAdmin) ==
  IF GateIndex(list, userId) = 0 THEN [status |-> 401, message |-> "invalid-token"]
  ELSE [status |-> 200, message |-> "pass"]
\* mutant: the gate checks the role before it looks the account up
GateCheckRoleFirst(list, userId, role, requireAdmin) ==
  IF requireAdmin /\ role # "admin" THEN [status |-> 403, message |-> "forbidden"]
  ELSE IF GateIndex(list, userId) = 0 THEN [status |-> 401, message |-> "invalid-token"]
  ELSE [status |-> 200, message |-> "pass"]
\* requireAuth after `await reader()`: "pass", or the rejection
GateCheck(list, userId, role, requireAdmin) ==
  IF GateIndex(list, userId) = 0 THEN [status |-> 401, message |-> "invalid-token"]
  ELSE IF requireAdmin /\ role # "admin" THEN [status |-> 403, message |-> "forbidden"]
  ELSE [status |-> 200, message |-> "pass"]

\* requireAuth resumes from `await reader()` in the suspended handler r with
\* the partition of the session's role; a rejection ends the handler, and
\* otherwise Body(list, i) is the handler from the gate's return to its next
\* await or response (i: the position of auth.user in auth.list)
AuthResume(r, kind, Body(_, _)) ==
  /\ r.pc = "gate"
  /\ r.kind = kind
  /\ (IF r.role = "admin" THEN "admins" ELSE "users") \notin corrupt
  /\ LET list == ReadFile(IF r.role = "admin" THEN "admins" ELSE "users")
         verdict == GateCheck(list, r.userId, r.role, kind \in AdminOnly)
     IN IF verdict.message # "pass"
        THEN /\ Reply([r EXCEPT !.list = list], verdict.status, verdict.message, NoBody)
             /\ Finish(r)
             /\ UNCHANGED uuids
        ELSE Body(list, GateIndex(list, r.userId))
  /\ UNCHANGED <<usersFile, adminsFile, sessions, listening, started, quota,
                 registered, created, deleted, corrupt, exited, faults>>

\* ------------------------------------------------- handler bodies (gated)
\* The body of a request is drawn where the handler first looks at it: no
\* step before that depends on it.

\* GET /api/auth/session
SessionBody(r) ==
  AuthResume(r, "session", LAMBDA list, i :
    /\ Reply(r, 200, "", [profile |-> scrubMember(list[i])])
    /\ Finish(r)
    /\ UNCHANGED uuids)

\* GET /api/todos
TodosBody(r) ==
  AuthResume(r, "todos", LAMBDA list, i :
    /\ Reply(r, 200, "", [todos |-> list[i].todos])
    /\ Finish(r)
    /\ UNCHANGED uuids)

\* mutant: POST /api/todos does not parse the body with todoCreateSchema
PostTodoBodyUnchecked(r, label) ==
  AuthResume(r, "postTodo", LAMBDA list, i :
    LET todo == Todo(uuids + 1, Trim(label))
    IN /\ uuids' = uuids + 1
       /\ Resume(r, [r EXCEPT !.pc = "write", !.label = label, !.out = todo,
                       !.list = [list EXCEPT ![i].todos = <<todo>> \o @]]))

\* mutant: POST /api/todos puts the new task at the end of the list
PostTodoBodyAppends(r, label) ==
  AuthResume(r, "postTodo", LAMBDA list, i :
    IF ~todoCreateSchema(label)
    THEN /\ Reply([r EXCEPT !.label = label], 400, "validation-error", NoBody)
         /\ Finish(r) /\ UNCHANGED uuids
    ELSE LET todo == Todo(uuids + 1, Trim(label))
         IN /\ uuids' = uuids + 1
            /\ Resume(r, [r EXCEPT !.pc = "write", !.label = label, !.out = todo,
                            !.list = [list EXCEPT ![i].todos = @ \o <<todo>>]]))

\* POST /api/todos, lines 251-259
PostTodoBody(r, label) ==
  AuthResume(r, "postTodo", LAMBDA list, i :
    IF ~todoCreateSchema(label)
    THEN /\ Reply([r EXCEPT !.label = label], 400, "validation-error", NoBody)
         /\ Finish(r) /\ UNCHANGED uuids
    ELSE LET todo == Todo(uuids + 1, Trim(label))
         IN /\ uuids' = uuids + 1
            /\ Resume(r, [r EXCEPT !.pc = "write", !.label = label, !.out = todo,
                            !.list = [list EXCEPT ![i].todos = <<todo>> \o @]]))

\* mutant: a PATCH without a boolean done keeps the flag
DoneValueKept(done, cur) == IF done \in {"true", "false"} THEN done = "true" ELSE cur
\* line 278: typeof req.body?.done === 'boolean' ? req.body.done : !todo.done
DoneValue(done, cur) == IF done \in {"true", "false"} THEN done = "true" ELSE ~cur

\* mutant: PATCH looks the task up in the lists of all accounts of the partition
PatchTodoBodyAnyOwner(r, tid, done) ==
  AuthResume(r, "patchTodo", LAMBDA list, i :
    LET owners == {k \in DOMAIN list :
                     \E j \in DOMAIN list[k].todos : list[k].todos[j].id = tid}
        req == [r EXCEPT !.tid = tid, !.done = done]
    IN IF owners = {}
       THEN /\ Reply([req EXCEPT !.list = list], 404, "not-found", NoBody)
            /\ Finish(r) /\ UNCHANGED uuids
       ELSE LET k == CHOOSE k \in owners : TRUE
                j == FindIndex(list[k].todos, LAMBDA item : item.id = tid)
                list2 == [list EXCEPT
                            ![k].todos[j].done = DoneValue(done, list[k].todos[j].done)]
            IN /\ Resume(r, [req EXCEPT !.pc = "write", !.out = list2[k].todos[j],
                               !.list = list2])
               /\ UNCHANGED uuids)

\* PATCH /api/todos/:id, lines 274-279
PatchTodoBody(r, tid, done) ==
  AuthResume(r, "patchTodo", LAMBDA list, i :
    LET j == FindIndex(list[i].todos, LAMBDA item : item.id = tid)
        req == [r EXCEPT !.tid = tid, !.done = done]
    IN IF j = 0
       THEN /\ Reply([req EXCEPT !.list = list], 404, "not-found", NoBody)
            /\ Finish(r) /\ UNCHANGED uuids
       ELSE LET value == DoneValue(done, list[i].todos[j].done)
                list2 == [list EXCEPT ![i].todos[j].done = value]
            IN /\ Resume(r, [req EXCEPT !.pc = "write", !.out = list2[i].todos[j],
                               !.list = list2])
               /\ UNCHANGED uuids)

\* mutant: DELETE rewrites the partition whether or not the id was found
DeleteTodoBodyRewrites(r, tid) ==
  AuthResume(r, "deleteTodo", LAMBDA list, i :
    LET next == SelectSeq(list[i].todos, LAMBDA item : item.id # tid)
    IN /\ Resume(r, [r EXCEPT !.pc = "write", !.tid = tid,
                        !.list = [list EXCEPT ![i].todos = next]])
       /\ UNCHANGED uuids)

\* DELETE /api/todos/:id, lines 286-292
DeleteTodoBody(r, tid) ==
  AuthResume(r, "deleteTodo", LAMBDA list, i :
    LET before == list[i].todos
        next == SelectSeq(before, LAMBDA item : item.id # tid)
        req == [r EXCEPT !.tid = tid]
    IN IF Len(next) = Len(before)
       THEN /\ Reply([req EXCEPT !.list = list], 404, "not-found", NoBody)
            /\ Finish(r) /\ UNCHANGED uuids
       ELSE /\ Resume(r, [req EXCEPT !.pc = "write",
                            !.list = [list EXCEPT ![i].todos = next]])
            /\ UNCHANGED uuids)

\* Promise.all([readUsers(), readAdmins()]) has been started
AwaitBoth(r) == [r EXCEPT !.pc = "reads", !.pending = Parts]

\* GET /api/admin/overview up to its Promise.all
AdminOverviewBody(r) ==
  AuthResume(r, "adminOverview", LAMBDA list, i :
    Resume(r, AwaitBoth(r)) /\ UNCHANGED uuids)

\* POST /api/admin/users up to its Promise.all, lines 316-318
AdminUsersBody(r, body) ==
  AuthResume(r, "adminUsers", LAMBDA list, i :
    LET req == [r EXCEPT !.name = body.name, !.email = body.email,
                         !.password = body.password, !.prole = body.role]
    IN IF ~adminCreateUserSchema(body.name, body.email, body.password, body.role)
       THEN /\ Reply(req, 400, "validation-error", NoBody)
            /\ Finish(r) /\ UNCHANGED uuids
       ELSE Resume(r, AwaitBoth(req)) /\ UNCHANGED uuids)

\* ------------------------------------- after Promise.all of both reads
\* an account of `list` with the email e, compared as the handler compares
EmailTaken(users, admins, Same(_)) ==
  \/ \E i \in DOMAIN users : Same(users[i].email)
  \/ \E i \in DOMAIN admins : Same(admins[i].email)

\* Each continuation takes the suspended record `was` and the same record
\* `r` with both lists read.

\* mutant: the uniqueness check compares the stored email with the email as
\* typed
RegisterAfterReadsAsTyped(was, r) ==
  LET exists == EmailTaken(r.users, r.admins, LAMBDA e : e = r.email)
      newUser == Account(uuids + 1, Trim(r.name), ToLowerCase(r.email),
                         BcryptHash(r.password), "user")
  IN IF exists
     THEN /\ Reply(r, 409, "email-in-use", NoBody) /\ Finish(was)
          /\ UNCHANGED <<uuids, sessions>>
     ELSE /\ uuids' = uuids + 1
          /\ Resume(was, [r EXCEPT !.pc = "write", !.out = newUser,
                            !.users = Append(r.users, newUser)])
          /\ UNCHANGED sessions

\* mutant: register takes the role from the body
RegisterAfterReadsAnyRole(was, r) ==
  LET exists == EmailTaken(r.users, r.admins,
                   LAMBDA e : ToLowerCase(e) = ToLowerCase(r.email))
      newUser == Account(uuids + 1, Trim(r.name), ToLowerCase(r.email),
                         BcryptHash(r.password),
                         IF r.prole = "admin" THEN "admin" ELSE "user")
  IN IF exists
     THEN /\ Reply(r, 409, "email-in-use", NoBody) /\ Finish(was)
          /\ UNCHANGED <<uuids, sessions>>
     ELSE /\ uuids' = uuids + 1
          /\ Resume(was, [r EXCEPT !.pc = "write", !.out = newUser,
                            !.users = Append(r.users, newUser)])
          /\ UNCHANGED sessions

\* register: lines 168-189
RegisterAfterReads(was, r) ==
  LET exists == EmailTaken(r.users, r.admins,
                   LAMBDA e : ToLowerCase(e) = ToLowerCase(r.email))
      newUser == Account(uuids + 1, Trim(r.name), ToLowerCase(r.email),
                         BcryptHash(r.password), "user")
  IN IF exists
     THEN /\ Reply(r, 409, "email-in-use", NoBody) /\ Finish(was)
          /\ UNCHANGED <<uuids, sessions>>
     ELSE /\ uuids' = uuids + 1
          /\ Resume(was, [r EXCEPT !.pc = "write", !.out = newUser,
                            !.users = Append(r.users, newUser)])
          /\ UNCHANGED sessions

\* mutant: a wrong password is answered differently from an unknown email
LoginAfterReadsLeaky(was, r) ==
  LET email == ToLowerCase(r.email)
      iu == FindIndex(r.users, LAMBDA entry : entry.email = email)
      ia == FindIndex(r.admins, LAMBDA entry : entry.email = email)
      role == IF iu # 0 THEN "user" ELSE "admin"
      found == iu # 0 \/ ia # 0
      user == IF iu # 0 THEN r.users[iu] ELSE r.admins[ia]
  IN /\ Finish(was)
     /\ IF ~found
        THEN Reply(r, 401, "invalid-credentials", NoBody) /\ UNCHANGED <<uuids, sessions>>
        ELSE IF ~BcryptCompare(r.password, user.passwordHash)
        THEN Reply(r, 401, "wrong-password", NoBody) /\ UNCHANGED <<uuids, sessions>>
        ELSE /\ uuids' = uuids + 1
             /\ createSession(uuids + 1, user.id, role)
             /\ Reply(r, 200, "", [token |-> uuids + 1, profile |-> scrubMember(user)])

\* login: lines 209-224
LoginAfterReads(was, r) ==
  LET email == ToLowerCase(r.email)
      iu == FindIndex(r.users, LAMBDA entry : entry.email = email)
      ia == FindIndex(r.admins, LAMBDA entry : entry.email = email)
      role == IF iu # 0 THEN "user" ELSE "admin"
      found == iu # 0 \/ ia # 0
      user == IF iu # 0 THEN r.users[iu] ELSE r.admins[ia]
  IN /\ Finish(was)
     /\ IF ~found
        THEN Reply(r, 401, "invalid-credentials", NoBody) /\ UNCHANGED <<uuids, sessions>>
        ELSE IF ~BcryptCompare(r.password, user.passwordHash)
        THEN Reply(r, 401, "invalid-credentials", NoBody) /\ UNCHANGED <<uuids, sessions>>
        ELSE /\ uuids' = uuids + 1
             /\ createSession(uuids + 1, user.id, role)
             /\ Reply(r, 200, "", [token |-> uuids + 1, profile |-> scrubMember(user)])

\* GET /api/admin/overview: lines 300-309
OverviewEntry(user) == scrubMember(user)
AdminOverviewAfterReads(was, r) ==
  /\ Reply(r, 200, "", [users |-> [i \in DOMAIN r.users |-> OverviewEntry(r.users[i])],
                        admins |-> [i \in DOMAIN r.admins |-> OverviewEntry(r.admins[i])]])
  /\ Finish(was)
  /\ UNCHANGED <<uuids, sessions>>

\* POST /api/admin/users: lines 317-341
AdminUsersAfterReads(was, r) ==
  LET email == ToLowerCase(r.email)
      exists == EmailTaken(r.users, r.admins, LAMBDA e : e = email)
      role == IF r.prole = "absent" THEN "user" ELSE r.prole
      newUser == Account(uuids + 1, Trim(r.name), email, BcryptHash(r.password), role)
  IN IF exists
     THEN /\ Reply(r, 409, "email-in-use", NoBody) /\ Finish(was)
          /\ UNCHANGED <<uuids, sessions>>
     ELSE /\ uuids' = uuids + 1
          /\ Resume(was, IF role = "admin"
                         THEN [r EXCEPT !.pc = "write", !.out = newUser,
                                 !.admins = Append(r.admins, newUser)]
                         ELSE [r EXCEPT !.pc = "write", !.out = newUser,
                                 !.users = Append(r.users, newUser)])
          /\ UNCHANGED sessions

\* one of the two reads of a Promise.all completes; when it is the second,
\* the handler runs on to its response or to its write
ReadPartition(r, p) ==
  /\ r.pc = "reads"
  /\ p \in r.pending
  /\ p \notin corrupt
  /\ LET r2 == [r EXCEPT !.pending = @ \ {p},
                         !.users = IF p = "users" THEN ReadFile(p) ELSE @,
                         !.admins = IF p = "admins" THEN ReadFile(p) ELSE @]
     IN IF r2.pending # {}
        THEN Resume(r, r2) /\ UNCHANGED <<uuids, sessions>>
        ELSE CASE r.kind = "register" -> RegisterAfterReads(r, r2)
               [] r.kind = "login" -> LoginAfterReads(r, r2)
               [] r.kind = "adminOverview" -> AdminOverviewAfterReads(r, r2)
               [] r.kind = "adminUsers" -> AdminUsersAfterReads(r, r2)
  /\ UNCHANGED <<usersFile, adminsFile, listening, started, quota, registered,
                 created, deleted, corrupt, exited, faults>>

\* ------------------------------------------------ after `await writer(..)`
\* mutant: every handler writes with writeUsers
WriteTargetUsers(r) == "users"
\* the partition the handler writes and the list it writes
WriteTarget(r) ==
  CASE r.kind = "register" -> "users"
    [] r.kind = "adminUsers" -> IF r.out.role = "admin" THEN "admins" ELSE "users"
    [] OTHER -> IF r.role = "admin" THEN "admins" ELSE "users"
WriteList(r) ==
  CASE r.kind = "register" -> r.users
    [] r.kind = "adminUsers" -> IF r.out.role = "admin" THEN r.admins ELSE r.users
    [] OTHER -> r.list

\* the write lands and the handler responds
WritePartition(r) ==
  /\ r.pc = "write"
  /\ WriteFile(WriteTarget(r), WriteList(r))
  /\ Finish(r)
  /\ CASE r.kind = "register" ->
            /\ uuids' = uuids + 1
            /\ createSession(uuids + 1, r.out.id, "user")
            /\ Reply(r, 201, "", [token |-> uuids + 1, profile |-> scrubMember(r.out)])
            /\ registered' = registered \cup
                 {[id |-> r.out.id, email |-> r.email, password |-> r.password,
                   at |-> started]}
            /\ UNCHANGED <<created, deleted>>
       [] r.kind = "adminUsers" ->
            /\ Reply(r, 201, "", [profile |-> scrubMember(r.out)])
            /\ UNCHANGED <<uuids, sessions, registered, created, deleted>>
       [] r.kind = "postTodo" ->
            /\ Reply(r, 201, "", [todo |-> r.out])
            /\ created' = created \cup
                 {[userId |-> r.userId, role |-> r.role, id |-> r.out.id]}
            /\ UNCHANGED <<uuids, sessions, registered, deleted>>
       [] r.kind = "patchTodo" ->
            /\ Reply(r, 200, "", [todo |-> r.out])
            /\ UNCHANGED <<uuids, sessions, registered, created, deleted>>
       [] r.kind = "deleteTodo" ->
            /\ Reply(r, 204, "", NoBody)
            /\ deleted' = deleted \cup {r.tid}
            /\ UNCHANGED <<uuids, sessions, registered, created>>
  /\ UNCHANGED <<listening, started, quota, exited, faults>>

\* ------------------------------------------------------- request arrival
\* Each action is a handler from its entry to its first await (or to its
\* response, when it ends before any await).
Arrive == listening /\ started < quota /\ started' = started + 1
Quiet == UNCHANGED <<usersFile, adminsFile, sessions, listening, uuids, quota,
                     registered, created, deleted, corrupt, exited, faults>>
Headers == {NoHeader, UnknownToken} \cup DOMAIN sessions
\* ids a client can have seen in a response
TodoIds(list) ==
  UNION {{list[i].todos[j].id : j \in DOMAIN list[i].todos} : i \in DOMAIN list}
KnownTodoIds == TodoIds(usersFile) \cup TodoIds(adminsFile) \cup {0}

Register(body) ==
  /\ Arrive /\ Quiet
  /\ LET r == [Request("register", NoHeader) EXCEPT
                 !.name = body.name, !.email = body.email, !.password = body.password,
                 !.prole = IF "role" \in DOMAIN body THEN body.role ELSE "absent"]
     IN IF ~registerSchema(body.name, body.email, body.password)
        THEN Reply(r, 400, "validation-error", NoBody) /\ UNCHANGED reqs
        ELSE Suspend(AwaitBoth(r))

Login(body) ==
  /\ Arrive /\ Quiet
  /\ LET r == [Request("login", NoHeader) EXCEPT
                 !.email = body.email, !.password = body.password]
     IN IF ~loginSchema(body.email, body.password)
        THEN Reply(r, 400, "validation-error", NoBody) /\ UNCHANGED reqs
        ELSE Suspend(AwaitBoth(r))

\* a handler that starts with requireAuth
Authenticated(kind, hdr) ==
  /\ kind \in Gated
  /\ Arrive /\ Quiet
  /\ AuthBegin(Request(kind, hdr))

Next ==
  \/ bootstrap
  \/ \E body \in RegisterInputs : Register(body)
  \/ \E body \in LoginInputs : Login(body)
  \/ \E kind \in Gated, hdr \in Headers : Authenticated(kind, hdr)
  \/ \E r \in reqs : SessionBody(r)
  \/ \E r \in reqs : TodosBody(r)
  \/ \E r \in reqs, label \in InputLabels : PostTodoBody(r, label)
  \/ \E r \in reqs, tid \in KnownTodoIds, done \in InputDone : PatchTodoBody(r, tid, done)
  \/ \E r \in reqs, tid \in KnownTodoIds : DeleteTodoBody(r, tid)
  \/ \E r \in reqs : AdminOverviewBody(r)
  \/ \E r \in reqs, body \in AdminInputs : AdminUsersBody(r, body)
  \/ \E r \in reqs, p \in Parts : ReadPartition(r, p)
  \/ \E r \in reqs : WritePartition(r)

Spec == Init /\ [][Next]_vars

\* The same service when the clients send only login, task-creation and
\* admin-provision requests, one request more of them.
InitAdmin == InitFiles /\ quota = MaxReqFew /\ faults = 0
NextAdmin ==
  \/ bootstrap
  \/ \E body \in LoginInputs : Login(body)
  \/ \E kind \in {"postTodo", "adminUsers"}, hdr \in Headers : Authenticated(kind, hdr)
  \/ \E r \in reqs, label \in InputLabels : PostTodoBody(r, label)
  \/ \E r \in reqs, body \in AdminInputs : AdminUsersBody(r, body)
  \/ \E r \in reqs, p \in Parts : ReadPartition(r, p)
  \/ \E r \in reqs : WritePartition(r)
SpecAdmin == InitAdmin /\ [][NextAdmin]_vars


\* The same service when the clients only register and manage tasks.
InitUsers == InitFiles /\ quota = MaxReqFew /\ faults = 0
NextUsers ==
  \/ bootstrap
  \/ \E body \in RegisterInputs : Register(body)
  \/ \E kind \in {"postTodo", "deleteTodo"}, hdr \in Headers : Authenticated(kind, hdr)
  \/ \E r \in reqs, label \in InputLabels : PostTodoBody(r, label)
  \/ \E r \in reqs, tid \in KnownTodoIds : DeleteTodoBody(r, tid)
  \/ \E r \in reqs, p \in Parts : ReadPartition(r, p)
  \/ \E r \in reqs : WritePartition(r)
SpecUsers == InitUsers /\ [][NextUsers]_vars

\* The same service when the clients only register and create, toggle and
\* list tasks.
InitTasks == InitFiles /\ quota = MaxReqFew /\ faults = 0
NextTasks ==
  \/ bootstrap
  \/ \E body \in RegisterInputs : Register(body)
  \/ \E kind \in {"postTodo", "patchTodo", "todos"}, hdr \in Headers :
       Authenticated(kind, hdr)
  \/ \E r \in reqs : TodosBody(r)
  \/ \E r \in reqs, label \in InputLabels : PostTodoBody(r, label)
  \/ \E r \in reqs, tid \in KnownTodoIds, done \in InputDone : PatchTodoBody(r, tid, done)
  \/ \E r \in reqs, p \in Parts : ReadPartition(r, p)
  \/ \E r \in reqs : WritePartition(r)
SpecTasks == InitTasks /\ [][NextTasks]_vars

\* The same service when the clients are two people who register and create,
\* toggle and delete tasks.
OwnerInputs == {body \in RegisterInputs :
                  /\ registerSchema(body.name, body.email, body.password)
                  /\ body.email \in {EmailA, EmailB}
                  /\ "role" \notin DOMAIN body}
InitOwners == InitFiles /\ quota = MaxReqFew /\ faults = 0
NextOwners ==
  \/ bootstrap
  \/ \E body \in OwnerInputs : Register(body)
  \/ \E kind \in {"postTodo", "patchTodo", "deleteTodo"}, hdr \in DOMAIN sessions :
       Authenticated(kind, hdr)
  \/ \E r \in reqs : PostTodoBody(r, <<"m">>)
  \/ \E r \in reqs, tid \in KnownTodoIds, done \in InputDone : PatchTodoBody(r, tid, done)
  \/ \E r \in reqs, tid \in KnownTodoIds : DeleteTodoBody(r, tid)
  \/ \E r \in reqs, p \in Parts : ReadPartition(r, p)
  \/ \E r \in reqs : WritePartition(r)
SpecOwners == InitOwners /\ [][NextOwners]_vars

\* The same service when each request is sent after the previous one was
\* answered (requests executed one after another).
Idle == reqs = {}
InitSeq == InitFiles /\ quota = MaxReqFew /\ faults = 0
NextSeq ==
  \/ bootstrap
  \/ Idle /\ \E body \in OwnerInputs : Register(body)
  \/ Idle /\ \E kind \in {"postTodo", "patchTodo", "deleteTodo", "todos"},
                hdr \in DOMAIN sessions : Authenticated(kind, hdr)
  \/ \E r \in reqs : TodosBody(r)
  \/ \E r \in reqs, label \in InputLabels : PostTodoBody(r, label)
  \/ \E r \in reqs, tid \in KnownTodoIds, done \in InputDone : PatchTodoBody(r, tid, done)
  \/ \E r \in reqs, tid \in KnownTodoIds : DeleteTodoBody(r, tid)
  \/ \E r \in reqs, p \in Parts : ReadPartition(r, p)
  \/ \E r \in reqs : WritePartition(r)
SpecSeq == InitSeq /\ [][NextSeq]_vars

\* ------------------------------------------- I/O failures, exit, restart
\* I/O failures and restarts in one behaviour of SpecEnv
MaxFaults == 2

\* the handlers whose awaits are inside try/catch (lines 165, 206, 248, 313)
Caught == {"register", "login", "postTodo", "adminUsers"}
\* An async handler without try/catch rejects.  What follows is decided by
\* the build (express and node versions, not pinned in the source): the
\* rejection is ignored and the request stays pending; the uncaught rejection
\* ends the process; or the router passes it to the default error handler.
Rejections == {"pending", "exit", "errorHandler"}

\* an await of the suspended handler r throws
Throw(r, outcome) ==
  IF r.kind \in Caught
  THEN /\ Reply(r, 500, "server-error", NoBody) /\ Finish(r)
       /\ UNCHANGED <<listening, exited>>
  ELSE CASE outcome = "pending" ->
              /\ Resume(r, [r EXCEPT !.pc = "hung"])
              /\ UNCHANGED <<listening, exited>>
         [] outcome = "exit" ->
              /\ reqs' = {} /\ listening' = FALSE /\ exited' = TRUE
              /\ UNCHANGED lastResp
         [] outcome = "errorHandler" ->
              /\ Reply(r, 500, "Internal Server Error", NoBody) /\ Finish(r)
              /\ UNCHANGED <<listening, exited>>

\* the partitions a suspended handler is reading
Reading(r) ==
  CASE r.pc = "gate" -> {IF r.role = "admin" THEN "admins" ELSE "users"}
    [] r.pc = "reads" -> r.pending
    [] OTHER -> {}

\* fsp.readFile rejects, or JSON.parse throws on a corrupt file
ReadFails(r, p, outcome) ==
  /\ p \in Reading(r)
  /\ IF p \in corrupt THEN UNCHANGED faults
     ELSE faults > 0 /\ faults' = faults - 1
  /\ Throw(r, outcome)
  /\ UNCHANGED <<usersFile, adminsFile, sessions, uuids, started, quota,
                 registered, created, deleted, corrupt>>

\* fsp.writeFile rejects; the file is as it was, or (torn) it was truncated
\* and only partly rewritten
WriteFails(r, torn, outcome) ==
  /\ r.pc = "write"
  /\ faults > 0 /\ faults' = faults - 1
  /\ corrupt' = IF torn THEN corrupt \cup {WriteTarget(r)} ELSE corrupt
  /\ Throw(r, outcome)
  /\ UNCHANGED <<usersFile, adminsFile, sessions, uuids, started, quota,
                 registered, created, deleted>>

\* bootstrap().catch: ensureSeedAdmin throws at its read or at its write and
\* the process exits with status 1
bootstrapFails(torn) ==
  /\ ~listening /\ ~exited
  /\ LET missing == \A i \in DOMAIN adminsFile :
                       adminsFile[i].email # ToLowerCase(AdminEmailEnv)
     IN \/ /\ "admins" \in corrupt
           /\ ~torn
           /\ UNCHANGED <<faults, corrupt>>
        \/ /\ "admins" \notin corrupt
           /\ faults > 0 /\ faults' = faults - 1
           /\ IF torn THEN missing /\ corrupt' = corrupt \cup {"admins"}
              ELSE UNCHANGED corrupt
  /\ exited' = TRUE
  /\ UNCHANGED <<usersFile, adminsFile, sessions, listening, reqs, uuids, started,
                 quota, lastResp, registered, created, deleted>>

\* the process is stopped (if it still runs) and started again: module load
\* (lines 19-33, 77) finds both files and creates an empty session map
Restart ==
  /\ faults > 0 /\ faults' = faults - 1
  /\ sessions' = <<>>
  /\ reqs' = {}
  /\ listening' = FALSE
  /\ exited' = FALSE
  /\ UNCHANGED <<usersFile, adminsFile, uuids, started, quota, lastResp,
                 registered, created, deleted, corrupt>>

\* The service with failing I/O and restarts.
InitEnv == InitFiles /\ quota = MaxReq /\ faults = MaxFaults
NextEnv ==
  \/ Next
  \/ \E r \in reqs, p \in Parts, outcome \in Rejections : ReadFails(r, p, outcome)
  \/ \E r \in reqs, torn \in BOOLEAN, outcome \in Rejections : WriteFails(r, torn, outcome)
  \/ \E torn \in BOOLEAN : bootstrapFails(torn)
  \/ Restart
SpecEnv == InitEnv /\ [][NextEnv]_vars


\* The service with failing I/O when the clients only log in and read their
\* session, with the scheduling of the event loop: a handler whose await has
\* settled is resumed.
HandlerStep ==
  \/ \E r \in reqs : SessionBody(r)
  \/ \E r \in reqs, p \in Parts : ReadPartition(r, p)
  \/ \E r \in reqs, p \in Parts, outcome \in Rejections : ReadFails(r, p, outcome)
InitLive == InitFiles /\ quota = MaxReq /\ faults = MaxFaults
NextLive ==
  \/ bootstrap
  \/ \E body \in LoginInputs : Login(body)
  \/ \E hdr \in Headers : Authenticated("session", hdr)
  \/ HandlerStep
SpecLive == InitLive /\ [][NextLive]_vars /\ WF_vars(HandlerStep)

\* ================================================================ claims
Ids(list) == {list[i].id : i \in DOMAIN list}
\* the accounts of both partitions, each tagged with where it is stored
Stored ==
  {<<"users", i>> : i \in DOMAIN usersFile} \cup {<<"admins", i>> : i \in DOMAIN adminsFile}
StoredAt(x) == IF x[1] = "users" THEN usersFile[x[2]] ELSE adminsFile[x[2]]
\* the persisted account with this id in the partition of this role, as a set
AccountsOf(role, id) ==
  LET list == IF role = "admin" THEN adminsFile ELSE usersFile
  IN {list[i] : i \in {j \in DOMAIN list : list[j].id = id}}

\* C1: in every reachable state no two accounts of users and admins together
\* have the same lower-cased email.
C1_EmailUniqueAcrossPartitions ==
  \A x, y \in Stored :
    x # y => ToLowerCase(StoredAt(x).email) # ToLowerCase(StoredAt(y).email)

\* C2: when the only requests so far are one registration and N task
\* creations by that account, all answered 201 and none still running, the
\* account's persisted task list holds exactly the N created tasks, with
\* pairwise distinct ids.
C2_ConcurrentCreatesAllPersisted ==
  \A a \in registered :
    LET mine == {c \in created : c.userId = a.id /\ c.role = "user"}
    IN (reqs = {} /\ started = 1 + Cardinality(mine))
       => \E acc \in AccountsOf("user", a.id) :
            /\ {acc.todos[j].id : j \in DOMAIN acc.todos} = {c.id : c \in mine}
            /\ Len(acc.todos) = Cardinality(mine)

\* C3: when two task creations by two different accounts of one partition
\* have both been answered 201 (and nothing was deleted), and both accounts
\* are still stored, the persisted partition holds both tasks, each in its
\* owner's list.
C3_WritesOfOnePartitionSerialized ==
  \A c1, c2 \in created :
    (/\ c1.userId # c2.userId /\ c1.role = c2.role
     /\ deleted = {}
     /\ AccountsOf(c1.role, c1.userId) # {} /\ AccountsOf(c2.role, c2.userId) # {})
    => \A c \in {c1, c2} : \A acc \in AccountsOf(c.role, c.userId) :
         c.id \in {acc.todos[j].id : j \in DOMAIN acc.todos}

\* C4: an account that is stored in a partition is stored in that partition
\* in the next state too (no step removes an account).
C4_AccountsNeverDeleted ==
  [][/\ Ids(usersFile) \subseteq Ids(usersFile')
     /\ Ids(adminsFile) \subseteq Ids(adminsFile')]_vars

\* what a response may show of an account: every field but passwordHash
AccountView(acc) ==
  [id |-> acc.id, name |-> acc.name, email |-> acc.email, role |-> acc.role,
   todos |-> acc.todos]
ViewAll(list) == [i \in DOMAIN list |-> AccountView(list[i])]
\* the step answers the request numbered seq
Answers(seq) == lastResp' # lastResp /\ lastResp'.req.seq = seq
\* the step answers it with exactly this error
AnswersError(seq, status, message) ==
  /\ Answers(seq)
  /\ lastResp'.status = status /\ lastResp'.message = message /\ lastResp'.body = NoBody
StoreUntouched == UNCHANGED <<usersFile, adminsFile, sessions>>
PartitionOf(role) == IF role = "admin" THEN adminsFile ELSE usersFile

\* the two parts of C5: what holds of every state, and of every step
C5_UserSessionNeverPastGate ==
  /\ \A r \in reqs : (r.kind \in AdminOnly /\ r.pc # "gate") => r.role = "admin"
  /\ LET q == lastResp.req
     IN /\ (q.kind \in AdminOnly /\ q.role = "user")
           => /\ lastResp.body = NoBody
              /\ IF q.userId \in Ids(q.list)
                 THEN lastResp.status = 403 /\ lastResp.message = "forbidden"
                 ELSE lastResp.status = 401 /\ lastResp.message = "invalid-token"
        /\ (q.kind = "adminOverview" /\ q.role = "admin")
           => \/ lastResp.status = 200
              \/ lastResp.status = 401 /\ q.userId \notin Ids(q.list)
C5_AdminEndpointSteps ==
  /\ (lastResp' # lastResp /\ lastResp'.req.kind \in AdminOnly
      /\ lastResp'.req.role = "user") => StoreUntouched
  /\ \A r \in reqs :
       (r.kind = "adminOverview" /\ r.pc = "reads" /\ Cardinality(r.pending) = 1
        /\ r \notin reqs')
       => /\ Answers(r.seq)
          /\ lastResp'.status = 200
          /\ \A p \in Parts :
               lastResp'.body[p] = ViewAll(IF p \in r.pending THEN ReadFile(p) ELSE r[p])
          /\ StoreUntouched
\* C5: a request to an admin endpoint under a session of role 'user' whose
\* account the gate finds is answered 403 forbidden, never runs the handler
\* body, and its steps change neither partition nor the session registry; an
\* overview under an admin session that passes the gate is answered 200 with
\* every account of both partitions as the handler read them (the partition
\* read last is the one persisted at that moment), each with its tasks and
\* without passwordHash.
C5_AdminEndpointsByRole ==
  [](C5_UserSessionNeverPastGate) /\ [][C5_AdminEndpointSteps]_vars
\* a user session is refused at an admin endpoint
C5_Witness ==
  /\ lastResp.req.kind \in AdminOnly
  /\ lastResp.req.role = "user"
  /\ lastResp.status = 403
\* an admin reads an overview that lists a registered user
C5_OverviewReached ==
  /\ lastResp.req.kind = "adminOverview"
  /\ lastResp.status = 200
  /\ Len(lastResp.body.users) >= 1

\* the two parts of C6: what holds of every state, and of every step
C6_GateInFlight ==
  \A r \in reqs :
    r.kind \in Gated
    => /\ r.hdr \in DOMAIN sessions
       /\ sessions[r.hdr] = [userId |-> r.userId, role |-> r.role]
       /\ r.pc \in {"gate", "reads", "write"}
       /\ (r.pc # "gate" /\ r.kind \in AdminOnly) => r.role = "admin"
C6_GateSteps ==
  /\ \A kind \in Gated :
       (started' = started + 1 /\ Answers(started') /\ lastResp'.req.kind = kind)
       => /\ IF lastResp'.req.hdr = NoHeader
             THEN AnswersError(started', 401, "missing-token")
             ELSE /\ lastResp'.req.hdr \notin DOMAIN sessions
                  /\ AnswersError(started', 401, "invalid-token")
          /\ StoreUntouched /\ reqs' = reqs
  /\ \A r \in reqs' \ reqs :
       (started' = started + 1 /\ r.kind \in Gated)
       => r.hdr # NoHeader /\ r.hdr \in DOMAIN sessions /\ r.pc = "gate"
  /\ \A r \in reqs :
       (r.kind \in Gated /\ r.pc = "gate" /\ r \notin reqs')
       => LET list == PartitionOf(r.role)
              rejected == /\ StoreUntouched /\ uuids' = uuids
                          /\ \A r2 \in reqs' : r2.seq # r.seq
          IN IF r.userId \notin Ids(list)
             THEN AnswersError(r.seq, 401, "invalid-token") /\ rejected
             ELSE IF r.kind \in AdminOnly /\ r.role # "admin"
             THEN AnswersError(r.seq, 403, "forbidden") /\ rejected
             ELSE /\ ~(Answers(r.seq) /\ lastResp'.status \in {401, 403})
                  /\ r.kind = "session"
                     => /\ Answers(r.seq) /\ lastResp'.status = 200
                        /\ \E acc \in AccountsOf(r.role, r.userId) :
                             lastResp'.body = [profile |-> AccountView(acc)]
                  /\ r.kind = "todos"
                     => /\ Answers(r.seq) /\ lastResp'.status = 200
                        /\ \E acc \in AccountsOf(r.role, r.userId) :
                             lastResp'.body = [todos |-> acc.todos]
\* C6: the gate decides in this order: no Bearer header, 401 missing-token;
\* token not in the session registry, 401 invalid-token; the session's
\* account absent from the partition of the session's role as read now, 401
\* invalid-token; admin required and role not admin, 403 forbidden; else the
\* handler runs with the account as persisted.  A rejected request changes
\* nothing and never runs the handler body.
C6_GateOrder == [](C6_GateInFlight) /\ [][C6_GateSteps]_vars
\* a live session whose account is gone from its partition is answered 401
C6_Witness ==
  /\ lastResp.req.kind \in AdminOnly
  /\ lastResp.status = 401 /\ lastResp.message = "invalid-token"
  /\ lastResp.req.hdr \in DOMAIN sessions
  /\ lastResp.req.role = "user"

C8_EmailCheckStep ==
  \A r \in reqs :
    (/\ r.kind \in {"register", "adminUsers"}
     /\ r.pc = "reads" /\ Cardinality(r.pending) = 1
     /\ r \notin reqs')
    => LET users == IF "users" \in r.pending THEN usersFile ELSE r.users
           admins == IF "admins" \in r.pending THEN adminsFile ELSE r.admins
           taken == \E acc \in {users[i] : i \in DOMAIN users}
                                 \cup {admins[i] : i \in DOMAIN admins} :
                      ToLowerCase(acc.email) = ToLowerCase(r.email)
       IN taken => /\ AnswersError(r.seq, 409, "email-in-use")
                   /\ StoreUntouched /\ uuids' = uuids
                   /\ \A r2 \in reqs' : r2.seq # r.seq
\* C8: when a register or admin-provision handler has read both partitions
\* and one of them holds an account whose lower-cased email equals the
\* lower-cased email of the request, the handler answers 409 email-in-use
\* in that step, writes no partition, draws no id and issues no session.
C8_DuplicateEmailRejected == [][C8_EmailCheckStep]_vars
\* the second registration differs from the stored email only in case
C8_Witness ==
  /\ lastResp.req.kind = "register"
  /\ lastResp.status = 409
  /\ lastResp.req.email = EmailAUpper
  /\ \E i \in DOMAIN usersFile : usersFile[i].email = EmailA

\* C9: in every reachable state every session of role 'admin' carries the id
\* of an account stored in the admins partition.
C9_AdminSessionsInAdmins ==
  \A t \in DOMAIN sessions :
    sessions[t].role = "admin" => sessions[t].userId \in Ids(adminsFile)

\* the two parts of C10: what holds of every state, and of every step
C10_LoginOutcome ==
  LET q == lastResp.req
  IN (q.kind = "login" /\ loginSchema(q.email, q.password))
     => LET known == {acc \in {q.users[i] : i \in DOMAIN q.users}
                               \cup {q.admins[i] : i \in DOMAIN q.admins} :
                        acc.email = ToLowerCase(q.email)}
        IN /\ lastResp.status \in {200, 401}
           /\ lastResp.status = 401
              => lastResp.message = "invalid-credentials" /\ lastResp.body = NoBody
           /\ known = {} => lastResp.status = 401
           /\ (\A acc \in known : ~BcryptCompare(q.password, acc.passwordHash))
              => lastResp.status = 401
           /\ lastResp.status = 200
              => \E acc \in known : /\ BcryptCompare(q.password, acc.passwordHash)
                                    /\ lastResp.body.profile.id = acc.id
C10_FailedLoginStep ==
  (lastResp' # lastResp /\ lastResp'.req.kind = "login" /\ lastResp'.status # 200)
  => StoreUntouched
\* C10: a login with a well-formed body that fails is answered 401
\* invalid-credentials with no body, the same whether no account has the
\* email or the password does not verify; it is answered 200 only when an
\* account with that email verifies the password; a failed login changes no
\* partition and no session.
C10_FailedLoginUniform == [](C10_LoginOutcome) /\ [][C10_FailedLoginStep]_vars
\* the email is known and the password is wrong
C10_Witness ==
  /\ lastResp.req.kind = "login"
  /\ lastResp.status = 401
  /\ \E i \in DOMAIN lastResp.req.users :
       /\ lastResp.req.users[i].email = ToLowerCase(lastResp.req.email)
       /\ ~BcryptCompare(lastResp.req.password, lastResp.req.users[i].passwordHash)

\* every task of every persisted account
StoredTodos ==
  UNION {{StoredAt(x).todos[j] : j \in DOMAIN StoredAt(x).todos} : x \in Stored}

\* C11: every persisted task label is trimmed of surrounding whitespace and
\* its length is between 1 and 140 (a label that is all whitespace is never
\* stored).
C11_LabelsTrimmedNonEmpty ==
  \A t \in StoredTodos :
    /\ t.label = Trim(t.label)
    /\ Len(t.label) >= LabelMin /\ Len(t.label) <= LabelMax

\* the handler of request seq after the step, as a set
After(seq) == {r2 \in reqs' : r2.seq = seq}
\* the tasks with this id in the persisted list of the account, as a set
TasksOf(role, userId, tid) ==
  UNION {{acc.todos[j] : j \in {k \in DOMAIN acc.todos : acc.todos[k].id = tid}} :
           acc \in AccountsOf(role, userId)}

\* the steps of C12
C12_PatchSteps ==
  \A r \in reqs :
    /\ (r.kind = "patchTodo" /\ r.pc = "gate" /\ r \notin reqs')
       => \A r2 \in After(r.seq) :
            /\ r2.pc = "write"
            /\ \A t \in TasksOf(r.role, r.userId, r2.tid) :
                 /\ r2.done = "absent" => r2.out.done = ~t.done
                 /\ r2.done = "true" => r2.out.done = TRUE
                 /\ r2.out = [t EXCEPT !.done = r2.out.done]
                 /\ (r2.done = "true" /\ t.done) => r2.list = PartitionOf(r.role)
            /\ \A i \in DOMAIN r2.list :
                 /\ r2.list[i].id = r.userId => r2.out \in {r2.list[i].todos[j] : j \in DOMAIN r2.list[i].todos}
                 /\ r2.list[i].id # r.userId => r2.list[i] = PartitionOf(r.role)[i]
    /\ (r.kind = "patchTodo" /\ r.pc = "write" /\ r \notin reqs')
       => /\ Answers(r.seq) /\ lastResp'.status = 200
          /\ lastResp'.body = [todo |-> r.out]
          /\ r.out \in TasksOf(r.role, r.userId, r.tid)'
\* C12: a PATCH of a task the caller's persisted list holds computes the new
\* flag from the persisted one as the handler reads it: its negation when the
\* body has no boolean done, true when the body has done:true (so that a
\* list whose task is already done is rewritten unchanged); only that flag
\* of that task changes, and the write persists it and answers 200 with the
\* task.
C12_ToggleAndSet == [][C12_PatchSteps]_vars
\* the second of two toggles in sequence: the task is back at done=false
C12_Witness ==
  /\ lastResp.req.kind = "patchTodo"
  /\ lastResp.status = 200
  /\ lastResp.req.done = "absent"
  /\ lastResp.body.todo.done = FALSE
  /\ reqs = {}

\* the step of C13
C13_DeleteSteps ==
  \A r \in reqs :
    /\ (r.kind = "deleteTodo" /\ r.pc = "gate" /\ r \notin reqs'
        /\ r.userId \in Ids(PartitionOf(r.role)))
       => /\ Answers(r.seq)
             => /\ AnswersError(r.seq, 404, "not-found")
                /\ TasksOf(r.role, r.userId, lastResp'.req.tid) = {}
                /\ After(r.seq) = {}
                /\ StoreUntouched
          /\ \A r2 \in After(r.seq) :
               /\ TasksOf(r.role, r.userId, r2.tid) # {}
               /\ ~Answers(r.seq)
    /\ (r.kind = "todos" /\ r.pc = "gate" /\ r \notin reqs' /\ Answers(r.seq)
        /\ lastResp'.status = 200)
       => \E acc \in AccountsOf(r.role, r.userId) : lastResp'.body = [todos |-> acc.todos]
\* C13: a DELETE whose id is not in the caller's persisted task list (as the
\* gate reads it) is answered 404 not-found in that step, schedules no write
\* and changes no partition and no session; a DELETE goes on to its write
\* only when the id is in the list; a list call returns the persisted list.
C13_DeleteMissingIsNotFound == [][C13_DeleteSteps]_vars
\* a caller with a task deletes an id that is not in its list
C13_Witness ==
  /\ lastResp.req.kind = "deleteTodo"
  /\ lastResp.status = 404
  /\ \E i \in DOMAIN lastResp.req.list :
       /\ lastResp.req.list[i].id = lastResp.req.userId
       /\ lastResp.req.list[i].todos # <<>>

\* the body of request q passes the schema of its endpoint
PassesSchema(q) ==
  CASE q.kind = "register" -> registerSchema(q.name, q.email, q.password)
    [] q.kind = "login" -> loginSchema(q.email, q.password)
    [] q.kind = "postTodo" -> todoCreateSchema(q.label)
    [] q.kind = "adminUsers" -> adminCreateUserSchema(q.name, q.email, q.password, q.prole)
    [] OTHER -> TRUE
\* the two parts of C14: what holds of every state, and of every step
C14_ValidatedFirst ==
  /\ lastResp.status = 400
     => /\ lastResp.message = "validation-error" /\ lastResp.body = NoBody
        /\ lastResp.req.kind \in {"register", "login", "postTodo", "adminUsers"}
        /\ ~PassesSchema(lastResp.req)
  /\ \A r \in reqs :
       (r.pc = "write" \/ (r.pc = "reads" /\ r.kind # "adminOverview")) => PassesSchema(r)
C14_RejectionSteps ==
  /\ (lastResp' # lastResp /\ lastResp'.status = 400)
     => /\ StoreUntouched /\ uuids' = uuids
        /\ After(lastResp'.req.seq) = {}
  /\ started' # started => StoreUntouched
\* C14: a request answered 400 is one whose body fails the schema of its
\* endpoint (register, login, task create, admin-provision); the step that
\* answers it and the step in which it arrived change no partition and no
\* session, draw no id and leave no write of that request pending; no handler
\* reaches its reads of both partitions or its write with a body that fails
\* the schema.
C14_ValidationErrorsWriteNothing ==
  [](C14_ValidatedFirst) /\ [][C14_RejectionSteps]_vars
\* a task creation that passed the gate is rejected for its label
C14_Witness ==
  /\ lastResp.req.kind = "postTodo"
  /\ lastResp.status = 400
  /\ lastResp.req.label = <<>>

\* the endpoints that write a partition
Mutating == {"register", "postTodo", "patchTodo", "deleteTodo", "adminUsers"}
\* the step is a failure of the write of r: r is the only handler in flight,
\* it awaits its write, an I/O failure happens and the process is not
\* restarted
WriteFailsFor(r) ==
  /\ reqs = {r} /\ r.pc = "write" /\ r.kind \in Mutating
  /\ faults' = faults - 1
  /\ listening' \/ exited'

\* C15: when the write of a mutating handler fails, that step answers the
\* request with status 500, the write is not tried again, and no session is
\* issued.
C15_WriteFailureIsServerError ==
  [][\A r \in reqs :
       WriteFailsFor(r)
       => /\ Answers(r.seq) /\ lastResp'.status = 500
          /\ After(r.seq) = {}
          /\ sessions' = sessions
          /\ UNCHANGED <<usersFile, adminsFile>>]_vars

\* the accounts of the admins partition with the configured seed email
SeedAccounts ==
  {i \in DOMAIN adminsFile : ToLowerCase(adminsFile[i].email) = ToLowerCase(AdminEmailEnv)}
\* the two parts of C16: what holds of every state, and of every step
C16_OneSeed ==
  /\ Cardinality(SeedAccounts) <= 1
  /\ listening => Cardinality(SeedAccounts) = 1
C16_SeedKept ==
  \A i \in SeedAccounts :
    \E j \in SeedAccounts' :
      /\ adminsFile'[j].id = adminsFile[i].id
      /\ adminsFile'[j].passwordHash = adminsFile[i].passwordHash
\* C16: the admins partition never holds two accounts with the seed email,
\* holds exactly one whenever the service listens (after every start), and
\* no step, of a later start or of a request, changes the id or the
\* passwordHash of the seed account once it is stored.
C16_SeedingIdempotent == [](C16_OneSeed) /\ [][C16_SeedKept]_vars
\* the service listens again after a restart that followed a login
C16_Witness ==
  /\ listening
  /\ sessions = <<>>
  /\ lastResp.req.kind = "login" /\ lastResp.status = 200
  /\ Cardinality(SeedAccounts) = 1

\* the step is a start of a new process
IsRestart == faults' = faults - 1 /\ ~listening' /\ ~exited' /\ reqs' = {} /\ sessions' = <<>>
\* the two parts of C17: what holds of every state, and of every step
C17_Resolved ==
  \A r \in reqs :
    r.kind \in Gated
    => r.hdr \in DOMAIN sessions /\ sessions[r.hdr] = [userId |-> r.userId, role |-> r.role]
C17_SessionSteps ==
  /\ ~IsRestart
     => \A t \in DOMAIN sessions : t \in DOMAIN sessions' /\ sessions'[t] = sessions[t]
  /\ \A t \in (DOMAIN sessions') \ DOMAIN sessions :
       /\ Cardinality((DOMAIN sessions') \ DOMAIN sessions) = 1
       /\ lastResp' # lastResp
       /\ lastResp'.req.kind \in {"register", "login"}
       /\ lastResp'.status = IF lastResp'.req.kind = "register" THEN 201 ELSE 200
       /\ lastResp'.body.token = t
       /\ sessions'[t].userId = lastResp'.body.profile.id
       /\ sessions'[t].role = lastResp'.body.profile.role
  /\ (started' # started \/ \E r \in reqs : r.pc = "gate" /\ r \notin reqs' /\ ~IsRestart)
     => sessions' = sessions
\* C17: until the process is started again, no step removes or alters an entry
\* of the session registry; an entry is added only by a register answered 201
\* or a login answered 200, under the token of that response and for the
\* account id and role of its profile; resolving a token (the arrival of a
\* request and its gate) changes no entry, and a handler past the resolution
\* carries the id and role its token was issued with.
C17_TokensStable == [](C17_Resolved) /\ [][C17_SessionSteps]_vars
\* a token resolves after another session was issued
C17_Witness ==
  /\ lastResp.req.kind = "session"
  /\ lastResp.status = 200
  /\ Cardinality(DOMAIN sessions) >= 2
  /\ lastResp.req.hdr = 3
  /\ lastResp.body.profile.id = sessions[lastResp.req.hdr].userId

\* C18: the step in which an admin-provision is answered 201 appends exactly
\* the new account to the persisted partition of the requested role (users
\* when no role is given), leaves the other partition unchanged and leaves
\* the session registry unchanged.
C18_ProvisionAppendsOne ==
  [][\A r \in reqs :
       (r.kind = "adminUsers" /\ r.pc = "write" /\ Answers(r.seq) /\ lastResp'.status = 201)
       => LET role == IF r.prole = "absent" THEN "user" ELSE r.prole
          IN /\ r.out.role = role
             /\ PartitionOf(role)' = Append(PartitionOf(role), r.out)
             /\ (role = "admin" => usersFile' = usersFile)
             /\ (role = "user" => adminsFile' = adminsFile)
             /\ sessions' = sessions]_vars

\* the fields of an account a response may carry
PublicFields == {"id", "name", "email", "role", "todos"}
\* C19: no response body has a passwordHash, at its top level, in its
\* profile or in an entry of the overview; a profile and an overview entry
\* have exactly the other fields of the account record, and the profile
\* answered by register and by admin-provision is the record that request
\* built (which has a passwordHash), without it.
C19_NoHashInResponses ==
  LET b == lastResp.body
      q == lastResp.req
  IN /\ "passwordHash" \notin DOMAIN b
     /\ "profile" \in DOMAIN b
        => /\ DOMAIN b.profile = PublicFields
           /\ (q.kind \in {"register", "adminUsers"})
              => /\ b.profile = AccountView(q.out)
                 /\ q.out.passwordHash = BcryptHash(q.password)
     /\ "users" \in DOMAIN b
        => /\ \A i \in DOMAIN b.users : DOMAIN b.users[i] = PublicFields
           /\ \A i \in DOMAIN b.admins : DOMAIN b.admins[i] = PublicFields
\* a login answers the profile of a stored account, which has a passwordHash
C19_Witness ==
  /\ lastResp.req.kind = "login"
  /\ lastResp.status = 200
  /\ \E x \in Stored :
       /\ StoredAt(x).id = lastResp.body.profile.id
       /\ "passwordHash" \in DOMAIN StoredAt(x)

\* C20: a start of the process goes on to listen only when neither partition
\* file is corrupt (a corrupt partition is fatal at startup).
C20_CorruptionIsFatalAtStartup ==
  [][(~listening /\ listening') => corrupt = {}]_vars

\* the handler of request n has not ended
InFlight(n) == \E r \in reqs : r.seq = n
\* C21: every request whose handler is suspended at an await is eventually
\* not in flight any more (it was answered, or the process ended).
C21_NoRequestPendingForever ==
  \A n \in 1..MaxReq : InFlight(n) ~> ~InFlight(n)

\* the two parts of C22: what holds of every state, and of every step
C22_SeededWhenServing ==
  (listening \/ reqs # {} \/ started > 0) => SeedAccounts # {}
C22_SeedStays == SeedAccounts # {} => SeedAccounts' # {}
\* C22: in every state in which the service listens, a handler is in flight
\* or a request has been received, the admins partition holds an account
\* with the configured seed email, and once it does it does in every later
\* state.
C22_SeedBeforeTraffic == [](C22_SeededWhenServing) /\ [][C22_SeedStays]_vars
\* a handler is in flight after the admins partition was rewritten by a
\* provision
C22_Witness ==
  /\ reqs # {}
  /\ Len(adminsFile) >= 2
  /\ SeedAccounts # {}

\* the handler r takes a step
Steps(r) == r \in reqs /\ r \notin reqs'
\* the two parts of C23: what holds of every state, and of every step
C23_RegisteredAreUsers ==
  /\ \A r \in reqs : (r.kind = "register" /\ r.pc = "write") => r.out.role = "user"
  /\ \A a \in registered :
       /\ a.id \notin Ids(adminsFile)
       /\ \A acc \in AccountsOf("user", a.id) : acc.role = "user"
  /\ \A r \in reqs :
       (r.kind = "register" /\ r.pc = "write") => r.out.id \notin Ids(adminsFile)
C23_AdminWrites ==
  /\ \A r \in reqs :
       (r.kind = "register" /\ Steps(r))
       => /\ adminsFile' = adminsFile
          /\ (Answers(r.seq) /\ lastResp'.status = 201)
             => /\ usersFile' = r.users
                /\ r.out \in {usersFile'[i] : i \in DOMAIN usersFile'}
                /\ lastResp'.body.profile.role = "user"
                /\ sessions'[lastResp'.body.token] = [userId |-> r.out.id, role |-> "user"]
  /\ adminsFile' # adminsFile
     => \/ ~listening /\ listening' /\ adminsFile = <<>> /\ Len(adminsFile') = 1
           /\ SeedAccounts' = {1}
        \/ \E r \in reqs :
             /\ Steps(r) /\ r.pc = "write" /\ r.role = "admin"
             /\ sessions[r.hdr].role = "admin"
             /\ adminsFile' = WriteList(r)
             /\ \A id \in Ids(adminsFile') \ Ids(r.list) :
                  \/ r.kind = "adminUsers" /\ r.prole = "admin" /\ r.out.id = id
                  \/ id \in Ids(r.admins)
\* C23: a registration, whatever its body, builds an account of role 'user',
\* writes only the users partition and is issued a session of role 'user';
\* no registered account is ever in the admins partition; the admins
\* partition is written only by the seeder at startup and by handlers
\* authenticated with an admin-role session, and an account enters the list
\* such a handler writes only as the account an admin-provision with
\* role 'admin' built.
C23_NoPrivilegeByRegistration ==
  [](C23_RegisteredAreUsers) /\ [][C23_AdminWrites]_vars
\* a registration whose body asks for role 'admin' is answered 201
C23_Witness ==
  /\ lastResp.req.kind = "register"
  /\ lastResp.status = 201
  /\ lastResp.req.prole = "admin"
  /\ lastResp.body.profile.role = "user"

\* the accounts other than userId, of either partition, that hold the task tid
OtherOwners(userId, tid) ==
  {x \in Stored : /\ StoredAt(x).id # userId
                  /\ \E j \in DOMAIN StoredAt(x).todos : StoredAt(x).todos[j].id = tid}
\* the step of C24
C24_OwnerSteps ==
  \A r \in reqs :
    (/\ r.kind \in {"patchTodo", "deleteTodo"} /\ r.pc = "gate" /\ Steps(r)
     /\ r.userId \in Ids(PartitionOf(r.role)))
    => /\ Answers(r.seq)
          => /\ AnswersError(r.seq, 404, "not-found")
             /\ TasksOf(r.role, r.userId, lastResp'.req.tid) = {}
             /\ After(r.seq) = {}
             /\ StoreUntouched
       /\ \A r2 \in After(r.seq) :
            /\ TasksOf(r.role, r.userId, r2.tid) # {}
            /\ \A i \in DOMAIN r2.list :
                 r2.list[i].id # r.userId => r2.list[i] = PartitionOf(r.role)[i]
\* C24: a PATCH or DELETE whose id is not in the persisted task list of the
\* caller, in particular the id of a task of another account, is answered
\* 404 not-found in the step of the gate, schedules no write and changes no
\* partition; a PATCH or DELETE goes on to its write only with an id of the
\* caller's own list, and the list it will write differs from the one it read
\* in the caller's account only.
C24_OwnershipByMembership == [][C24_OwnerSteps]_vars
\* account A toggles the id of a task that another stored account holds
C24_Witness ==
  /\ lastResp.req.kind = "patchTodo"
  /\ lastResp.status = 404
  /\ OtherOwners(lastResp.req.userId, lastResp.req.tid) # {}
  /\ lastResp.req.userId \in Ids(usersFile)

\* the ids of a task list, in its order
IdsInOrder(todos) == [j \in DOMAIN todos |-> todos[j].id]
\* the persisted task list of the account (<<>> when it is not stored)
TodosOf(role, userId) ==
  IF AccountsOf(role, userId) = {} THEN <<>>
  ELSE (CHOOSE acc \in AccountsOf(role, userId) : TRUE).todos
\* the two parts of C25: what holds of every state, and of every step
C25_SurvivorsNewestFirst ==
  \A a \in registered :
    LET todos == TodosOf("user", a.id)
    IN /\ AccountsOf("user", a.id) # {}
       /\ \A j, k \in DOMAIN todos : j < k => todos[j].id > todos[k].id
       /\ {todos[j].id : j \in DOMAIN todos}
            = {c.id : c \in {c \in created : c.userId = a.id}} \ deleted
C25_ListSteps ==
  \A r \in reqs :
    LET before == TodosOf(r.role, r.userId)
        after == TodosOf(r.role, r.userId)'
        answered == Steps(r) /\ Answers(r.seq)
    IN /\ (r.kind = "postTodo" /\ answered /\ lastResp'.status = 201)
          => /\ after = <<lastResp'.body.todo>> \o before
             /\ lastResp'.body.todo.done = FALSE
       /\ (r.kind = "patchTodo" /\ answered /\ lastResp'.status = 200)
          => /\ IdsInOrder(after) = IdsInOrder(before)
             /\ \A j \in DOMAIN before :
                  IF before[j].id = r.tid
                  THEN after[j] = [before[j] EXCEPT !.done = after[j].done]
                  ELSE after[j] = before[j]
       /\ (r.kind = "deleteTodo" /\ answered /\ lastResp'.status = 204)
          => /\ after = SelectSeq(before, LAMBDA item : item.id # r.tid)
             /\ Len(after) = Len(before) - 1
       /\ (r.kind = "todos" /\ answered /\ lastResp'.status = 200)
          => lastResp'.body = [todos |-> before] /\ after = before
       /\ (r.kind \in {"postTodo", "patchTodo", "deleteTodo", "todos"} /\ Steps(r))
          => \A x \in Stored :
               StoredAt(x).id # r.userId => StoredAt(x)' = StoredAt(x)
\* C25: when requests are executed one after another, the persisted task
\* list of an account is the tasks it created and did not delete, newest
\* first; a create answered 201 puts the new task, not done, in front of the
\* persisted list; a toggle changes only the done flag of its task; a delete
\* removes only its task and keeps the order of the others; GET /api/todos
\* answers the persisted list; none of them changes another account.
C25_ReverseCreationOrder == [](C25_SurvivorsNewestFirst) /\ [][C25_ListSteps]_vars
\* the older of two tasks was deleted, the newer one survives
C25_Witness ==
  /\ lastResp.req.kind = "deleteTodo"
  /\ lastResp.status = 204
  /\ Cardinality(created) = 2
  /\ \E a \in registered :
       /\ Len(TodosOf("user", a.id)) = 1
       /\ \A c \in created : c.id <= TodosOf("user", a.id)[1].id

\* the two parts of C26: what holds of every state, and of every step
C26_RoleIsPartition ==
  /\ \A i \in DOMAIN usersFile : usersFile[i].role = "user"
  /\ \A i \in DOMAIN adminsFile : adminsFile[i].role = "admin"
  /\ Ids(usersFile) \cap Ids(adminsFile) = {}
C26_RoleKept ==
  /\ Ids(usersFile) \cap Ids(adminsFile') = {}
  /\ Ids(adminsFile) \cap Ids(usersFile') = {}
  /\ \A x \in Stored : \A y \in Stored' :
       StoredAt(x).id = StoredAt(y)'.id
       => x[1] = y[1] /\ StoredAt(x).role = StoredAt(y)'.role
\* C26: every account of the users partition has role 'user' and every
\* account of the admins partition has role 'admin'; no step changes the
\* role of a stored account or stores in one partition an account that was
\* stored in the other.
C26_RoleImmutable == [](C26_RoleIsPartition) /\ [][C26_RoleKept]_vars
\* both partitions hold a provisioned account
C26_Witness ==
  /\ Len(adminsFile) >= 2
  /\ Len(usersFile) >= 1
  /\ lastResp.req.kind = "adminUsers" /\ lastResp.status = 201

\* C27: a task whose DELETE was answered 204 is in no persisted task list in
\* any later state.
C27_DeletedStaysDeleted ==
  \A tid \in deleted : tid \notin TodoIds(usersFile) \cup TodoIds(adminsFile)

====
